---- MODULE Spec2Model ----
(***************************************************************************)
(* Authentica n8n node: the request construction / validation pipeline of  *)
(* Authentica.execute and doRequest, with the host (parameter resolution,  *)
(* credential store, authenticated HTTP transport, continue-on-fail) as a  *)
(* nondeterministic environment.                                           *)
(*                                                                         *)
(* Strings that the code inspects character by character (phone, email)    *)
(* are tuples of one-character strings.  JSON values are tagged records.   *)
(* A JavaScript object is a function from its own keys to values, so that  *)
(* "key k is absent" is  k \notin DOMAIN obj.                              *)
(***************************************************************************)
EXTENDS Integers, Sequences, FiniteSets, TLC

\* ------------------------------------------------------------------ bounds
MaxItems == 2

\* ------------------------------------------------------------ JSON values
JUndef == [t |-> "undef"]
JNull == [t |-> "null"]
JBool(b) == [t |-> "bool", b |-> b]
JNum(n) == [t |-> "num", n |-> n]
JStr(s) == [t |-> "str", s |-> s]
\* an object with the two properties the code reads; JUndef = property absent
JObj(d, b) == [t |-> "obj", data |-> d, balance |-> b]

IsNullish(v) == v.t \in {"undef", "null"}

\* v.k for a value that is not null/undefined (k is "data" or "balance")
Prop(v, k) == IF v.t = "obj" THEN v[k] ELSE JUndef

\* v?.k
OptProp(v, k) == IF IsNullish(v) THEN JUndef ELSE Prop(v, k)

\* a ?? b
Coalesce(a, b) == IF IsNullish(a) THEN b ELSE a

\* if (x): JavaScript truthiness of a JSON value
Truthy(v) ==
  CASE v.t \in {"undef", "null"} -> FALSE
    [] v.t = "bool" -> v.b
    [] v.t = "num" -> v.n # 0
    [] v.t = "str" -> v.s # ""
    [] OTHER -> TRUE

\* ------------------------------------------------- character-level strings
Digits == {"0", "1", "2", "3", "4", "5", "6", "7", "8", "9"}
WhiteSpace == {" ", "\t", "\n"}

RECURSIVE TrimStart(_)
TrimStart(s) ==
  IF s # <<>> /\ Head(s) \in WhiteSpace THEN TrimStart(Tail(s)) ELSE s

RECURSIVE TrimEnd(_)
TrimEnd(s) ==
  IF s # <<>> /\ s[Len(s)] \in WhiteSpace
  THEN TrimEnd(SubSeq(s, 1, Len(s) - 1))
  ELSE s

\* String.prototype.trim
Trim(s) == TrimEnd(TrimStart(s))

\* /^\+[1-9]\d{6,14}$/
MatchE164(s) ==
  /\ Len(s) >= 8
  /\ Len(s) <= 16
  /\ s[1] = "+"
  /\ s[2] \in Digits \ {"0"}
  /\ \A k \in 3..Len(s) : s[k] \in Digits

\* /^[^\s@]+@[^\s@]+\.[^\s@]+$/
MatchEmail(s) ==
  \E a \in 2..Len(s) : \E d \in (a + 2)..(Len(s) - 1) :
    /\ s[a] = "@"
    /\ s[d] = "."
    /\ \A k \in (1..Len(s)) \ {a} : s[k] \notin WhiteSpace \cup {"@"}

isE164(phone) == MatchE164(Trim(phone))

isEmail(v) == MatchEmail(Trim(v))

\* ------------------------------------------------------- parameter values
Resources == {"account", "otp"}
Operations == {"getBalance", "send", "verify"}
OtpMethods == {"email", "sms", "whatsapp"}
VerifyWiths == {"phone", "email"}
OtpCodes == {"123456"}

PhoneOk == <<"+", "9", "6", "6", "5", "0", "0", "1">>
PhonePadded == <<" ">> \o PhoneOk \o <<" ">>
PhoneMax == PhoneOk \o <<"2", "3", "4", "5", "6", "7", "8", "9">>
PhoneShort == <<"+", "9", "6", "6", "5", "0", "0">>
PhoneLong == PhoneMax \o <<"0">>
PhoneZero == <<"+", "0", "6", "6", "5", "0", "0", "1">>
PhoneNoPlus == <<"9", "6", "6", "5", "0", "0", "1", "2">>
PhoneGap == <<"+", "9", "6", "6", " ", "5", "0", "0", "1">>
Phones ==
  {<<>>, PhoneOk, PhonePadded, PhoneMax, PhoneShort, PhoneLong, PhoneZero,
   PhoneNoPlus, PhoneGap}

EmailOk == <<"u", "@", "e", ".", "c">>
EmailPadded == <<"\t">> \o EmailOk \o <<"\n">>
EmailDots == <<"u", ".", "v", "@", "e", ".", "c", ".", "o">>
EmailNoDot == <<"u", "@", "e">>
EmailTwoAt == <<"u", "@", "e", "@", "f", ".", "c">>
EmailGap == <<"u", " ", "v", "@", "e", ".", "c">>
EmailNoLocal == <<"@", "e", ".", "c">>
EmailNoTld == <<"u", "@", "e", ".">>
Emails ==
  {<<>>, EmailOk, EmailPadded, EmailDots, EmailNoDot, EmailTwoAt, EmailGap,
   EmailNoLocal, EmailNoTld}

\* ----------------------------------------------------------------- errors
ErrPhone ==
  [name |-> "NodeOperationError",
   message |-> "Phone must be E.164, e.g. +9665XXXXXXX"]
ErrEmail == [name |-> "NodeOperationError", message |-> "Email is not valid"]

\* what the credential store may reject with
CredentialErrors ==
  {[name |-> "Error", message |-> "Node does not have any credentials set"]}

\* what the transport may reject with
TransportErrors ==
  {[name |-> "Error", message |-> "Request failed with status code 400"],
   [name |-> "Error", message |-> "connect ECONNREFUSED"]}

\* reading a property of null / undefined
PropTypeError(v, k) ==
  [name |-> "TypeError",
   message |-> IF v.t = "null"
               THEN "Cannot read properties of null (reading '" \o k \o "')"
               ELSE "Cannot read properties of undefined (reading '" \o k \o "')"]

\* ------------------------------------------------------------ credentials
DefaultBaseUrl == "https://api.authentica.sa"

\* what getCredentials may resolve to: nothing, or a record whose baseUrl is
\* absent, empty or set
StoredCredentials ==
  {[defined |-> FALSE],
   [defined |-> TRUE, apiKey |-> "k"],
   [defined |-> TRUE, apiKey |-> "k", baseUrl |-> ""],
   [defined |-> TRUE, apiKey |-> "k", baseUrl |-> "https://sandbox.example"]}

\* the fallback written with ?? : an empty baseUrl is kept
BaseUrlOf_Nullish(creds) ==
  IF creds.defined /\ "baseUrl" \in DOMAIN creds
  THEN creds.baseUrl
  ELSE DefaultBaseUrl

\* (creds?.baseUrl as string) || 'https://api.authentica.sa'
BaseUrlOf(creds) ==
  IF creds.defined /\ "baseUrl" \in DOMAIN creds /\ creds.baseUrl # ""
  THEN creds.baseUrl
  ELSE DefaultBaseUrl

\* -------------------------------------------------------------- responses
\* what the transport may resolve to (json: true): any JSON value
Responses ==
  {JNull,
   JStr(""),
   JObj(JUndef, JUndef),
   JObj(JUndef, JNum(7)),
   JObj(JNull, JNum(7)),
   JObj(JObj(JUndef, JNum(5)), JUndef),
   JObj(JObj(JUndef, JNum(0)), JNum(7)),
   JObj(JObj(JUndef, JUndef), JNum(7)),
   JObj(JObj(JObj(JUndef, JNum(3)), JUndef), JUndef),
   JObj(JObj(JObj(JUndef, JNum(3)), JNull), JNum(7)),
   JObj(JObj(JNum(1), JUndef), JUndef)}

\* ------------------------------------------------------------------ state
VARIABLES
  resource,        \* getNodeParameter('resource', 0)
  operation,       \* getNodeParameter('operation', 0)
  includeRaw,      \* getNodeParameter('includeRaw', 0, false)
  continueOnFail,  \* this.continueOnFail()
  nItems,          \* items.length
  credentials,     \* what the credential store holds for 'authenticaApi'
  i,               \* loop index of execute
  pc,              \* "loop", "creds" (awaiting getCredentials), "http"
                   \* (awaiting the transport), "returned", "thrown"
  returnData,      \* the output records pushed so far
  call,            \* the arguments of the doRequest call in progress
  sent,            \* the transport call in progress
  res,             \* the response of the current item, JUndef before it
  selector,        \* the local `method` / `verifyWith` of the current item
  thrown,          \* the NodeApiError execute rejected with
  validated,       \* history: per item "none", "passed", "failed"
  reqCount,        \* history: per item, the number of transport calls
  outcome,         \* history: per item "pending", "invalid" (check failed),
                   \* "credsFailed" / "httpFailed" (doRequest threw),
                   \* "returned" (doRequest returned), "skipped" (no branch)
  hostError        \* history: the last error the host rejected with

vars ==
  <<resource, operation, includeRaw, continueOnFail, nItems, credentials, i,
    pc, returnData, call, sent, res, selector, thrown, validated, reqCount,
    outcome, hostError>>

config == <<resource, operation, includeRaw, continueOnFail, nItems, credentials>>

None == [none |-> TRUE]

Items == 0..(nItems - 1)

Init ==
  /\ resource \in Resources
  /\ operation \in Operations
  /\ includeRaw \in BOOLEAN
  /\ continueOnFail \in BOOLEAN
  /\ nItems \in 0..MaxItems
  /\ credentials \in StoredCredentials
  /\ i = 0
  /\ pc = "loop"
  /\ returnData = <<>>
  /\ call = None
  /\ sent = None
  /\ res = JUndef
  /\ selector = ""
  /\ thrown = None
  /\ validated = [k \in Items |-> "none"]
  /\ reqCount = [k \in Items |-> 0]
  /\ outcome = [k \in Items |-> "pending"]
  /\ hostError = None

\* ----------------------------------------------------- execute: the pieces
\* the send branch with its check left out
SendValid_Unchecked(method, phone, email) == TRUE

\* the check of the send branch
SendValid(method, phone, email) ==
  IF method # "email" THEN isE164(phone) ELSE isEmail(email)

SendError(method) == IF method # "email" THEN ErrPhone ELSE ErrEmail

\* the send body with both identifiers always copied in
SendBody_Both(method, phone, email) ==
  ("method" :> method) @@ ("email" :> email) @@ ("phone" :> phone)

\* const body = { method }; body.email = email / body.phone = phone
SendBody(method, phone, email) ==
  IF method = "email"
  THEN ("method" :> method) @@ ("email" :> email)
  ELSE ("method" :> method) @@ ("phone" :> phone)

\* const body = { otp }; body.email = verifyEmail / body.phone = verifyPhone
VerifyBody(verifyWith, otp, verifyPhone, verifyEmail) ==
  IF verifyWith = "email"
  THEN ("otp" :> otp) @@ ("email" :> verifyEmail)
  ELSE ("otp" :> otp) @@ ("phone" :> verifyPhone)

\* the check of the verify branch, made on the body
VerifyValid(verifyWith, body) ==
  IF verifyWith = "email" THEN isEmail(body["email"]) ELSE isE164(body["phone"])

VerifyError(verifyWith) == IF verifyWith = "email" THEN ErrEmail ELSE ErrPhone

\* the balance looked for at the top level of the response first
BalanceOf_TopFirst(r) ==
  Coalesce(Prop(r, "balance"),
           Coalesce(OptProp(Prop(r, "data"), "balance"),
                    OptProp(OptProp(Prop(r, "data"), "data"), "balance")))

\* data = res.data ?? res; balance = data?.balance ?? data?.data?.balance
\* (for a response that is neither null nor undefined)
BalanceOf(r) ==
  LET data == Coalesce(Prop(r, "data"), r)
  IN  Coalesce(OptProp(data, "balance"),
               OptProp(OptProp(data, "data"), "balance"))

\* the flag taken from the response instead of being set to true
OtpOut_FromResponse(op, r) ==
  IF op = "send"
  THEN "success" :> JBool(Truthy(r))
  ELSE "verified" :> JBool(Truthy(r))

\* out = { success: true } / out = { verified: true }, set once doRequest
\* has returned r
OtpOut(op, r) ==
  IF op = "send" THEN "success" :> JBool(TRUE) ELSE "verified" :> JBool(TRUE)

\* out = { balance }
BalanceOut(r) == "balance" :> BalanceOf(r)

\* the response attached whatever includeRaw says
WithRaw_Always(out, raw, r) ==
  IF Truthy(r) THEN ("raw" :> r) @@ out ELSE out

\* if (includeRaw && res) out.raw = res
WithRaw(out, raw, r) ==
  IF raw /\ Truthy(r) THEN ("raw" :> r) @@ out ELSE out

\* the record pushed for an item that did not throw
SuccessItem(out) == ("json" :> out)

\* the record pushed by the catch block under continue-on-fail
ErrorItem(error, idx) ==
  ("json" :> ("error" :> JStr(error.message))) @@ ("pairedItem" :> [item |-> idx])

\* the loop going round on the same item again
NextIndex_Again(idx) == idx

\* the index the loop goes on with after an item
NextIndex(idx) == idx + 1

\* the pushes that end an item
Push(item) ==
  /\ returnData' = Append(returnData, item)
  /\ i' = NextIndex(i)
  /\ pc' = "loop"
  /\ thrown' = thrown

\* the catch block capturing the error whatever continueOnFail says
Catch_Capture(error) == Push(ErrorItem(error, i))

\* catch (error) { ... }
Catch(error) ==
  IF continueOnFail
  THEN Push(ErrorItem(error, i))
  ELSE /\ pc' = "thrown"
       /\ thrown' = [name |-> "NodeApiError", cause |-> error, itemIndex |-> i]
       /\ UNCHANGED <<returnData, i>>

\* doRequest up to its first await
CallDoRequest(method, path, args) ==
  /\ call' = ("method" :> method) @@ ("path" :> path) @@ args
  /\ pc' = "creds"
  /\ UNCHANGED <<returnData, i, thrown>>

\* the options object doRequest builds from its arguments and the credentials
RequestOptions(c, creds) ==
  LET options ==
        [method |-> c["method"],
         url |-> BaseUrlOf(creds) \o c["path"],
         headers |-> ("Content-Type" :> "application/json")
                       @@ ("Accept" :> "application/json"),
         json |-> TRUE]
  IN  IF c["method"] # "GET" /\ "body" \in DOMAIN c
      THEN options @@ ("body" :> c["body"])
      ELSE options

\* this.helpers.httpRequestWithAuthentication.call(this, 'authenticaApi', options)
TransportCall(options) ==
  [helper |-> "httpRequestWithAuthentication",
   credentialsType |-> "authenticaApi",
   options |-> options]

\* catch (error) { throw error; } of doRequest
Rethrow(error) == error

NoBody == [k \in {} |-> None]

\* --------------------------------------------------------------- actions
\* resource 'otp', operation 'send': from the loop head to doRequest's await
SendOtp ==
  /\ pc = "loop" /\ i < nItems
  /\ resource = "otp" /\ operation = "send"
  /\ \E method \in OtpMethods, phone \in Phones, email \in Emails :
       /\ selector' = method
       /\ IF SendValid(method, phone, email)
          THEN /\ CallDoRequest("POST", "/api/v2/send-otp",
                                "body" :> SendBody(method, phone, email))
               /\ validated' = [validated EXCEPT ![i] = "passed"]
               /\ outcome' = outcome
          ELSE /\ Catch(SendError(method))
               /\ validated' = [validated EXCEPT ![i] = "failed"]
               /\ outcome' = [outcome EXCEPT ![i] = "invalid"]
               /\ call' = call
  /\ res' = JUndef
  /\ UNCHANGED <<config, sent, reqCount, hostError>>

\* resource 'otp', operation 'verify': from the loop head to doRequest's await
VerifyOtp ==
  /\ pc = "loop" /\ i < nItems
  /\ resource = "otp" /\ operation = "verify"
  /\ \E verifyWith \in VerifyWiths, otp \in OtpCodes,
        verifyPhone \in Phones, verifyEmail \in Emails :
       LET body == VerifyBody(verifyWith, otp, verifyPhone, verifyEmail)
       IN  /\ selector' = verifyWith
           /\ IF VerifyValid(verifyWith, body)
              THEN /\ CallDoRequest("POST", "/api/v2/verify-otp", "body" :> body)
                   /\ validated' = [validated EXCEPT ![i] = "passed"]
                   /\ outcome' = outcome
              ELSE /\ Catch(VerifyError(verifyWith))
                   /\ validated' = [validated EXCEPT ![i] = "failed"]
                   /\ outcome' = [outcome EXCEPT ![i] = "invalid"]
                   /\ call' = call
  /\ res' = JUndef
  /\ UNCHANGED <<config, sent, reqCount, hostError>>

\* resource 'account', operation 'getBalance': up to doRequest's await
GetBalance ==
  /\ pc = "loop" /\ i < nItems
  /\ resource = "account" /\ operation = "getBalance"
  /\ CallDoRequest("GET", "/api/v2/balance", NoBody)
  /\ res' = JUndef
  /\ selector' = ""
  /\ UNCHANGED <<config, sent, validated, reqCount, outcome, hostError>>

\* any other resource / operation pair: no branch is taken, out stays {}
NoBranch ==
  /\ pc = "loop" /\ i < nItems
  /\ ~(resource = "otp" /\ operation \in {"send", "verify"})
  /\ ~(resource = "account" /\ operation = "getBalance")
  /\ Push(SuccessItem(WithRaw(<<>>, includeRaw, JUndef)))
  /\ res' = JUndef
  /\ selector' = ""
  /\ outcome' = [outcome EXCEPT ![i] = "skipped"]
  /\ UNCHANGED <<config, call, sent, validated, reqCount, hostError>>

\* getCredentials resolves: doRequest builds the options and calls the transport
CredentialsResolve ==
  /\ pc = "creds"
  /\ sent' = TransportCall(RequestOptions(call, credentials))
  /\ reqCount' = [reqCount EXCEPT ![i] = @ + 1]
  /\ pc' = "http"
  /\ UNCHANGED <<config, i, returnData, call, res, selector, thrown, validated,
                 outcome, hostError>>

\* getCredentials rejects: the error leaves doRequest and reaches the catch
CredentialsReject ==
  /\ pc = "creds"
  /\ \E error \in CredentialErrors :
       /\ hostError' = error
       /\ Catch(error)
  /\ call' = None
  /\ outcome' = [outcome EXCEPT ![i] = "credsFailed"]
  /\ UNCHANGED <<config, sent, res, selector, validated, reqCount>>

\* the transport rejects: doRequest rethrows, the catch of execute runs
TransportReject ==
  /\ pc = "http"
  /\ \E error \in TransportErrors :
       /\ hostError' = error
       /\ Catch(Rethrow(error))
  /\ call' = None
  /\ sent' = None
  /\ outcome' = [outcome EXCEPT ![i] = "httpFailed"]
  /\ UNCHANGED <<config, res, selector, validated, reqCount>>

\* the transport resolves: the rest of the branch, includeRaw and the push
TransportResolve ==
  /\ pc = "http"
  /\ \E r \in Responses :
       /\ res' = r
       /\ IF operation \in {"send", "verify"}
          THEN Push(SuccessItem(WithRaw(OtpOut(operation, r), includeRaw, r)))
          ELSE IF IsNullish(r)
               THEN Catch(PropTypeError(r, "data"))
               ELSE Push(SuccessItem(WithRaw(BalanceOut(r), includeRaw, r)))
  /\ call' = None
  /\ sent' = None
  /\ outcome' = [outcome EXCEPT ![i] = "returned"]
  /\ UNCHANGED <<config, selector, validated, reqCount, hostError>>

\* the loop is over: return [returnData]
Return ==
  /\ pc = "loop" /\ i >= nItems
  /\ pc' = "returned"
  /\ UNCHANGED <<config, i, returnData, call, sent, res, selector, thrown,
                 validated, reqCount, outcome, hostError>>

Next ==
  \/ SendOtp
  \/ VerifyOtp
  \/ GetBalance
  \/ NoBranch
  \/ CredentialsResolve
  \/ CredentialsReject
  \/ TransportReject
  \/ TransportResolve
  \/ Return

Spec == Init /\ [][Next]_vars

\* ---------------------------------------------------------- shorthands
OtpRun == resource = "otp" /\ operation \in {"send", "verify"}
BalanceRun == resource = "account" /\ operation = "getBalance"
Recognised == OtpRun \/ BalanceRun

\* the record of item k (items count from 0)
RecordOf(k) == returnData[k + 1]

IsErrorRecord(rec, k) ==
  /\ DOMAIN rec = {"json", "pairedItem"}
  /\ DOMAIN rec["json"] = {"error"}
  /\ rec["pairedItem"] = [item |-> k]

\* the item the last completed step belongs to
LastItem == IF pc = "thrown" THEN i ELSE i - 1

\* --------------------------------------------------------------- claim C1
\* the identifier the selector picks, in the doRequest call of the current item
SelectedIdentifierPasses ==
  LET body == call["body"]
  IN  IF selector = "email"
      THEN "email" \in DOMAIN body /\ isEmail(body["email"])
      ELSE "phone" \in DOMAIN body /\ isE164(body["phone"])

\* an item whose identifier failed the check has its error and no request
FailedItemEndsInError(k) ==
  /\ reqCount[k] = 0
  /\ IF continueOnFail
     THEN /\ Len(returnData) > k
          /\ IsErrorRecord(RecordOf(k), k)
          /\ RecordOf(k)["json"]["error"]
               \in {JStr("Phone must be E.164, e.g. +9665XXXXXXX"),
                    JStr("Email is not valid")}
     ELSE /\ pc = "thrown"
          /\ thrown.itemIndex = k
          /\ thrown.cause.message
               \in {"Phone must be E.164, e.g. +9665XXXXXXX", "Email is not valid"}

C1_State ==
  /\ (OtpRun /\ pc \in {"creds", "http"}) =>
       (validated[i] = "passed" /\ SelectedIdentifierPasses)
  /\ \A k \in Items :
       /\ (OtpRun /\ reqCount[k] > 0) => validated[k] = "passed"
       /\ validated[k] = "failed" => FailedItemEndsInError(k)

\* a transport call for item k is made only from a state in which k's
\* identifier has already passed its check
C1_Step ==
  \A k \in Items :
    (OtpRun /\ reqCount'[k] > reqCount[k]) =>
      (validated[k] = "passed" /\ k = i /\ SelectedIdentifierPasses)

\* C1: in a send-OTP or verify-OTP run no HTTP request is issued for an item
\* unless its contact identifier (the phone, checked by isE164, when the
\* method / verifyWith is not 'email'; the email, checked by isEmail,
\* otherwise) passed validation first; an item whose identifier fails
\* validation ends in the 'Phone must be E.164...' or 'Email is not valid'
\* error with zero requests issued for it.
C1_ValidationPrecedesSending == [](C1_State) /\ [][C1_Step]_vars

\* one item was refused without a request and a later one was sent after
\* passing its check
C1_Witness ==
  /\ OtpRun /\ nItems = 2 /\ pc = "http" /\ i = 1
  /\ validated[0] = "failed" /\ reqCount[0] = 0
  /\ validated[1] = "passed" /\ reqCount[1] = 1

\* --------------------------------------------------------------- claim C2
BaseUrls == {DefaultBaseUrl} \cup
            {c.baseUrl : c \in {d \in StoredCredentials : "baseUrl" \in DOMAIN d}}

UrlsFor(path) == {b \o path : b \in BaseUrls \ {""}}

\* C2: every request issued is shaped for its operation: send OTP is
\* POST /api/v2/send-otp with a body of 'method' and exactly one of 'phone'
\* (method other than 'email') or 'email' (method 'email'); verify OTP is
\* POST /api/v2/verify-otp with a body of 'otp' and exactly one of 'phone' or
\* 'email' as verifyWith chooses; get balance is GET /api/v2/balance with no
\* body; nothing else is ever issued.
C2_RequestShape ==
  pc = "http" =>
    LET o == sent.options
    IN  /\ Recognised
        /\ (resource = "otp" /\ operation = "send") =>
             /\ o.method = "POST"
             /\ o.url \in UrlsFor("/api/v2/send-otp")
             /\ "body" \in DOMAIN o
             /\ "method" \in DOMAIN o.body
             /\ o.body["method"] = selector
             /\ IF o.body["method"] = "email"
                THEN DOMAIN o.body = {"method", "email"}
                ELSE DOMAIN o.body = {"method", "phone"}
        /\ (resource = "otp" /\ operation = "verify") =>
             /\ o.method = "POST"
             /\ o.url \in UrlsFor("/api/v2/verify-otp")
             /\ "body" \in DOMAIN o
             /\ "otp" \in DOMAIN o.body
             /\ o.body["otp"] \in OtpCodes
             /\ IF selector = "email"
                THEN DOMAIN o.body = {"otp", "email"}
                ELSE DOMAIN o.body = {"otp", "phone"}
        /\ BalanceRun =>
             /\ o.method = "GET"
             /\ o.url \in UrlsFor("/api/v2/balance")
             /\ "body" \notin DOMAIN o

\* a verify request that carries the email
C2_Witness ==
  /\ pc = "http"
  /\ resource = "otp" /\ operation = "verify"
  /\ selector = "email"
  /\ DOMAIN sent.options.body = {"otp", "email"}

\* --------------------------------------------------------------- claim C3
Failed(k) == outcome[k] \in {"invalid", "credsFailed", "httpFailed"}

\* the key of the success record of the run's operation
SuccessKey ==
  CASE operation = "send" -> "success"
    [] operation = "verify" -> "verified"
    [] OTHER -> "balance"

IsSuccessRecord(rec) ==
  /\ DOMAIN rec = {"json"}
  /\ DOMAIN rec["json"] \ {"raw"} = {SuccessKey}

\* C3: with continue-on-fail enabled execute returns exactly one record per
\* input item, in input order; record k is the error record paired with item
\* k if and only if k's validation failed or its request threw, and is
\* otherwise the success record of the operation.
C3_OneRecordPerItem ==
  continueOnFail =>
    /\ pc # "thrown"
    /\ pc = "returned" =>
         /\ Len(returnData) = nItems
         /\ Recognised =>
              \A k \in Items :
                IF Failed(k)
                THEN IsErrorRecord(RecordOf(k), k)
                ELSE IsSuccessRecord(RecordOf(k))

\* --------------------------------------------------------------- claim C4
\* C4: with continue-on-fail disabled, the first item whose validation fails
\* or whose request throws makes execute reject with a NodeApiError carrying
\* that item's index; nothing is returned, and no request is issued for any
\* later item.
C4_FirstFailureAborts ==
  ~continueOnFail =>
    \A k \in Items :
      Failed(k) =>
        /\ pc = "thrown"
        /\ thrown.name = "NodeApiError"
        /\ thrown.itemIndex = k
        /\ i = k
        /\ \A j \in Items : j < k => ~Failed(j)
        /\ \A j \in Items :
             j > k => (reqCount[j] = 0 /\ outcome[j] = "pending"
                       /\ validated[j] = "none")

\* the second item's request threw after the first item had succeeded
C4_Witness ==
  /\ ~continueOnFail /\ nItems = 2
  /\ pc = "thrown" /\ thrown.itemIndex = 1
  /\ outcome[0] = "returned" /\ outcome[1] = "httpFailed"
  /\ Len(returnData) = 1

\* --------------------------------------------------------------- claim C5
\* an item whose turn is over
Over(k) == outcome[k] # "pending"

PassedValidation(k) == IF OtpRun THEN validated[k] = "passed" ELSE TRUE

C5_AtMostOnce ==
  \A k \in Items :
    /\ reqCount[k] <= 1
    /\ validated[k] = "failed" => reqCount[k] = 0

C5_Sequential ==
  /\ pc \in {"creds", "http"} =>
       /\ i \in Items
       /\ Len(returnData) = i
       /\ \A k \in Items : k < i => Over(k)
       /\ \A k \in Items : k > i => (reqCount[k] = 0 /\ ~Over(k))
  /\ pc = "http" => reqCount[i] = 1

\* a transport call is made for the current item only, once every earlier
\* item is over and has its record
C5_Step ==
  \A k \in Items :
    reqCount'[k] > reqCount[k] =>
      /\ k = i
      /\ reqCount[k] = 0
      /\ Len(returnData) = k
      /\ \A j \in Items : j < k => Over(j)

\* C5 as stated: at most one HTTP request per item, exactly one for every
\* item that passes validation under a recognised operation, none for an
\* item that fails validation, and items are dispatched strictly in turn.
C5_ExactlyOnePerValidItem ==
  /\ C5_AtMostOnce
  /\ C5_Sequential
  /\ \A k \in Items :
       (Recognised /\ Over(k) /\ PassedValidation(k)) => reqCount[k] = 1

\* C5 amended: at most one HTTP request per item, exactly one for every item
\* that passes validation under a recognised operation and whose credential
\* lookup succeeds, none for an item that fails validation or whose
\* credential lookup fails; a failed request is never re-issued, and the
\* request of item k+1 is issued only after item k's request has completed
\* and its record has been produced.
C5_NoRetrySequential ==
  /\ [](/\ C5_AtMostOnce
        /\ C5_Sequential
        /\ \A k \in Items :
             /\ (Recognised /\ Over(k) /\ PassedValidation(k)
                   /\ outcome[k] # "credsFailed") => reqCount[k] = 1
             /\ outcome[k] = "credsFailed" => reqCount[k] = 0)
  /\ [][C5_Step]_vars

\* a request that failed was not issued again, and the next item got its own
C5_Witness ==
  /\ continueOnFail /\ nItems = 2 /\ pc = "returned"
  /\ outcome[0] = "httpFailed" /\ reqCount[0] = 1
  /\ outcome[1] = "returned" /\ reqCount[1] = 1

\* --------------------------------------------------------------- claim C6
\* the base URL the stored credential stands for
ConfiguredBaseUrl ==
  IF ~credentials.defined THEN "https://api.authentica.sa"
  ELSE IF "baseUrl" \notin DOMAIN credentials THEN "https://api.authentica.sa"
  ELSE IF credentials.baseUrl = "" THEN "https://api.authentica.sa"
  ELSE credentials.baseUrl

\* the error that reached the output of item k is the host's, unchanged
HostErrorIsItemError(k) ==
  /\ hostError \in CredentialErrors \cup TransportErrors
  /\ IF continueOnFail
     THEN /\ Len(returnData) > k
          /\ IsErrorRecord(RecordOf(k), k)
          /\ RecordOf(k)["json"]["error"] = JStr(hostError.message)
     ELSE /\ pc = "thrown"
          /\ thrown.itemIndex = k
          /\ thrown.cause = hostError

\* C6: every request goes through the authenticated transport with the
\* credential 'authenticaApi', to the credential's baseUrl followed by the
\* operation path, 'https://api.authentica.sa' standing in for a missing or
\* empty baseUrl; an error from the credential lookup or the transport
\* reaches the caller unchanged as the item's error.
C6_AuthenticatedAndAddressed ==
  /\ pc = "http" =>
       /\ sent.helper = "httpRequestWithAuthentication"
       /\ sent.credentialsType = "authenticaApi"
       /\ sent.options.url = ConfiguredBaseUrl \o call["path"]
  /\ (LastItem \in Items /\ pc \in {"loop", "returned", "thrown"}
        /\ outcome[LastItem] \in {"credsFailed", "httpFailed"}) =>
       HostErrorIsItemError(LastItem)

\* a request addressed to the default host because the stored baseUrl is empty
C6_Witness ==
  /\ pc = "http"
  /\ credentials.defined
  /\ "baseUrl" \in DOMAIN credentials
  /\ credentials.baseUrl = ""
  /\ sent.options.url = "https://api.authentica.sa/api/v2/balance"

\* --------------------------------------------------------------- claim C7
\* the last step pushed the success record of a get-balance item, for the
\* response still held in res
BalancePushed ==
  /\ BalanceRun
  /\ pc \in {"loop", "returned"}
  /\ i > 0
  /\ outcome[i - 1] = "returned"
  /\ ~IsNullish(res)

HasValue(v) == v.t \notin {"null", "undef"}

\* the balance as the claim words it
NormalisedBalance(r) ==
  LET data == IF r.t = "obj" /\ HasValue(r.data) THEN r.data ELSE r
      own == IF data.t = "obj" THEN data.balance ELSE JUndef
      inner == IF data.t = "obj" /\ data.data.t = "obj"
               THEN data.data.balance
               ELSE JUndef
  IN  IF HasValue(own) THEN own ELSE inner

\* the response without its top-level 'balance'
WithoutTopBalance(r) == IF r.t = "obj" THEN [r EXCEPT !.balance = JUndef] ELSE r

C7_Normalised ==
  BalancePushed =>
    LET json == RecordOf(i - 1)["json"]
    IN  /\ "balance" \in DOMAIN json
        /\ json["balance"] = NormalisedBalance(res)
        /\ ~includeRaw => DOMAIN json = {"balance"}

SuccessPushed ==
  /\ pc \in {"loop", "returned"}
  /\ i > 0
  /\ \/ outcome[i - 1] = "skipped"
     \/ outcome[i - 1] = "returned" /\ ~(BalanceRun /\ IsNullish(res))

FalsyValues == {JUndef, JNull, JStr(""), JNum(0), JBool(FALSE)}

\* the record without its 'raw' key
WithoutRaw(json) == [k \in DOMAIN json \ {"raw"} |-> json[k]]

\* the record the item gets when includeRaw is false
PlainRecord ==
  CASE outcome[i - 1] = "skipped" -> <<>>
    [] operation = "send" -> "success" :> JBool(TRUE)
    [] operation = "verify" -> "verified" :> JBool(TRUE)
    [] OTHER -> "balance" :> NormalisedBalance(res)

\* C8: a success record has a 'raw' key, equal to the response of the item's
\* own request, if and only if includeRaw is true and that response is
\* truthy; with includeRaw false no record has 'raw'; error records never
\* have 'raw'; the other keys are the same with includeRaw true and false.
C8_IncludeRaw ==
  /\ \A n \in 1..Len(returnData) :
       LET json == returnData[n]["json"]
       IN  /\ ~includeRaw => "raw" \notin DOMAIN json
           /\ "error" \in DOMAIN json => "raw" \notin DOMAIN json
  /\ SuccessPushed =>
       LET json == RecordOf(i - 1)["json"]
       IN  /\ "raw" \in DOMAIN json <=> (includeRaw /\ res \notin FalsyValues)
           /\ "raw" \in DOMAIN json => json["raw"] = res
           /\ WithoutRaw(json) = PlainRecord

\* a balance record that carries the response it was read from
C8_Witness ==
  /\ SuccessPushed /\ BalanceRun /\ includeRaw
  /\ res = JObj(JObj(JUndef, JNum(5)), JUndef)
  /\ RecordOf(i - 1)["json"] = ("balance" :> JNum(5)) @@ ("raw" :> res)

\* --------------------------------------------------------------- claim C9
\* C9: every 'phone' sent by send OTP or verify OTP is itself an E.164 string
\* and every 'email' sent is itself of the form local@domain.tld without
\* whitespace: the value sent is the value that was validated.
C9_SentIdentifierWellFormed ==
  (OtpRun /\ pc = "http") =>
    LET body == sent.options.body
    IN  /\ "phone" \in DOMAIN body => MatchE164(body["phone"])
        /\ "email" \in DOMAIN body => MatchEmail(body["email"])

\* -------------------------------------------------------------- claim C10
\* the last step was the transport resolving for an OTP item
OtpReturned ==
  /\ OtpRun
  /\ pc \in {"loop", "returned"}
  /\ i > 0
  /\ outcome[i - 1] = "returned"

\* C10: for send OTP and verify OTP the record of every item whose request
\* returned is {success: true} / {verified: true}, whatever the response
\* holds; no record has a false flag, and an OTP item has an error record
\* only when its check failed or its request threw.
C10_FlagIndependentOfResponse ==
  /\ OtpReturned =>
       LET rec == RecordOf(i - 1)
       IN  /\ DOMAIN rec = {"json"}
           /\ WithoutRaw(rec["json"]) = (SuccessKey :> JBool(TRUE))
  /\ OtpRun =>
       \A n \in 1..Len(returnData) :
         LET json == returnData[n]["json"]
         IN  /\ \A key \in DOMAIN json \cap {"success", "verified"} :
                  json[key] = JBool(TRUE)
             /\ "error" \in DOMAIN json => Failed(n - 1)

\* an OTP verification whose response was null is still reported verified
C10_Witness ==
  /\ OtpReturned /\ operation = "verify"
  /\ res = JNull
  /\ RecordOf(i - 1)["json"] = ("verified" :> JBool(TRUE))

====
